---- MODULE Spec2Model ----
(***************************************************************************)
(* Cell Look Shader add-on (src/__init__.py): the mask node group builder, *)
(* its compatibility helper and the material builder, as a state machine   *)
(* over the host document (bpy.data.node_groups, bpy.data.materials).      *)
(*                                                                         *)
(* Objects are identified by their position in the document's collections  *)
(* (an object is never removed by the add-on, so the position is stable).  *)
(* Python values are written as the source writes them: "0.7", "1.0",      *)
(* "(1.0, 1.0, 1.0, 1.0)", "True".  A socket is a record of the node, the  *)
(* side, the socket's name and its 0-based index on that side.             *)
(*                                                                         *)
(* The two operators of the panel run against `context` (the scene with    *)
(* its render settings, and the active object) and leave in `report` what  *)
(* they reported and returned.                                             *)
(***************************************************************************)
EXTENDS Integers, Sequences, FiniteSets, TLC

VARIABLES host, node_groups, materials, ret, context, report

vars == <<host, node_groups, materials, ret, context, report>>

\* ------------------------------------------------------------------ bounds

\* Most node group objects in the document.
MaxGroups == 4

\* Most material objects in the document.
MaxMaterials == 2

\* ------------------------------------------------------- program constants

GROUP_NAME_DEFAULT == "CellLook_Shader_Group"

DEFAULT_MATERIAL_NAME == "CellLook_Material"

\* Group names the callers pass: the add-on's only caller passes the fixed
\* internal name.
GroupNames == {GROUP_NAME_DEFAULT}

\* Material names the user types in the panel.
MaterialNames == {DEFAULT_MATERIAL_NAME}

\* --------------------------------------------------------- host node types

\* Every socket name a node type may expose on one side, in the host's
\* order, over the host versions the add-on probes for: the current names
\* and the older ones ("R", "Fac", "Color1", ...).  "" is the unnamed
\* extension socket of the group input / output nodes.
SocketUniverse(type, dir) ==
    CASE type = "NodeGroupInput"           /\ dir = "out" -> <<"Ramp Pos", "">>
      [] type = "NodeGroupOutput"          /\ dir = "in"  -> <<"Mask", "">>
      [] type = "ShaderNodeBsdfDiffuse"    /\ dir = "in"  -> <<"Color", "Roughness", "Normal">>
      [] type = "ShaderNodeBsdfDiffuse"    /\ dir = "out" -> <<"BSDF">>
      [] type = "ShaderNodeShaderToRGB"    /\ dir = "in"  -> <<"Shader">>
      [] type = "ShaderNodeShaderToRGB"    /\ dir = "out" -> <<"Color", "Alpha">>
      [] type = "ShaderNodeRGBToBW"        /\ dir = "in"  -> <<"Color">>
      [] type = "ShaderNodeRGBToBW"        /\ dir = "out" -> <<"Val">>
      [] type = "ShaderNodeMath"           /\ dir = "in"  -> <<"Value", "Value", "Value">>
      [] type = "ShaderNodeMath"           /\ dir = "out" -> <<"Value">>
      [] type = "ShaderNodeCombineColor"   /\ dir = "in"  -> <<"Red", "R", "Green", "G", "Blue", "B">>
      [] type = "ShaderNodeCombineColor"   /\ dir = "out" -> <<"Color">>
      [] type = "ShaderNodeMix"            /\ dir = "in"  -> <<"Factor", "Fac", "A", "Color1", "B", "Color2">>
      [] type = "ShaderNodeMix"            /\ dir = "out" -> <<"Result">>
      [] type = "ShaderNodeEmission"       /\ dir = "in"  -> <<"Color", "Strength">>
      [] type = "ShaderNodeEmission"       /\ dir = "out" -> <<"Emission">>
      [] type = "ShaderNodeOutputMaterial" /\ dir = "in"  -> <<"Surface", "Volume", "Displacement">>
      [] type = "ShaderNodeBsdfPrincipled" /\ dir = "in"  -> <<"Base Color">>
      [] type = "ShaderNodeBsdfPrincipled" /\ dir = "out" -> <<"BSDF">>
      [] OTHER -> <<>>

NodeTypes ==
    {"NodeGroupInput", "NodeGroupOutput", "ShaderNodeBsdfDiffuse",
     "ShaderNodeShaderToRGB", "ShaderNodeRGBToBW", "ShaderNodeMath",
     "ShaderNodeCombineColor", "ShaderNodeMix", "ShaderNodeEmission",
     "ShaderNodeOutputMaterial", "ShaderNodeBsdfPrincipled"}

Range(s) == {s[i] : i \in 1..Len(s)}

\* A host is the set of <<node type, side, name>> it exposes; the side
\* "attr" holds node attributes probed with hasattr.
AllKeys ==
    {<<t, d, n>> : t \in NodeTypes, d \in {"in", "out"},
                   n \in UNION {Range(SocketUniverse(t2, d2)) :
                                  t2 \in NodeTypes, d2 \in {"in", "out"}}}

UniverseKeys ==
    {k \in AllKeys : k[3] \in Range(SocketUniverse(k[1], k[2]))}
      \cup {<<"ShaderNodeMix", "attr", "clamp_result">>}

\* The names only older hosts use.
LegacyKeys ==
    {<<"ShaderNodeCombineColor", "in", "R">>,
     <<"ShaderNodeCombineColor", "in", "G">>,
     <<"ShaderNodeCombineColor", "in", "B">>,
     <<"ShaderNodeMix", "in", "Fac">>,
     <<"ShaderNodeMix", "in", "Color1">>,
     <<"ShaderNodeMix", "in", "Color2">>}

\* The host the add-on targets (bl_info: Blender 4.0).
StandardHost == UniverseKeys \ LegacyKeys

\* The sockets the add-on looks up by name.
ProbedKeys ==
    {<<"NodeGroupInput", "out", "Ramp Pos">>,
     <<"NodeGroupOutput", "in", "Mask">>,
     <<"NodeGroupOutput", "in", "">>,
     <<"ShaderNodeBsdfDiffuse", "in", "Roughness">>,
     <<"ShaderNodeBsdfDiffuse", "in", "Color">>,
     <<"ShaderNodeBsdfDiffuse", "out", "BSDF">>,
     <<"ShaderNodeShaderToRGB", "in", "Shader">>,
     <<"ShaderNodeShaderToRGB", "out", "Color">>,
     <<"ShaderNodeRGBToBW", "in", "Color">>,
     <<"ShaderNodeRGBToBW", "out", "Val">>,
     <<"ShaderNodeCombineColor", "in", "Red">>,
     <<"ShaderNodeCombineColor", "in", "Green">>,
     <<"ShaderNodeCombineColor", "in", "Blue">>,
     <<"ShaderNodeCombineColor", "out", "Color">>,
     <<"ShaderNodeMix", "in", "Factor">>,
     <<"ShaderNodeMix", "in", "A">>,
     <<"ShaderNodeMix", "in", "B">>,
     <<"ShaderNodeMix", "out", "Result">>,
     <<"ShaderNodeMix", "attr", "clamp_result">>,
     <<"ShaderNodeEmission", "in", "Strength">>,
     <<"ShaderNodeEmission", "in", "Color">>,
     <<"ShaderNodeEmission", "out", "Emission">>,
     <<"ShaderNodeOutputMaterial", "in", "Surface">>}

\* The older name a host may expose in place of a current one.
LegacyOf(k) ==
    CASE k = <<"ShaderNodeCombineColor", "in", "Red">>   -> {<<"ShaderNodeCombineColor", "in", "R">>}
      [] k = <<"ShaderNodeCombineColor", "in", "Green">> -> {<<"ShaderNodeCombineColor", "in", "G">>}
      [] k = <<"ShaderNodeCombineColor", "in", "Blue">>  -> {<<"ShaderNodeCombineColor", "in", "B">>}
      [] k = <<"ShaderNodeMix", "in", "Factor">>         -> {<<"ShaderNodeMix", "in", "Fac">>}
      [] k = <<"ShaderNodeMix", "in", "A">>              -> {<<"ShaderNodeMix", "in", "Color1">>}
      [] k = <<"ShaderNodeMix", "in", "B">>              -> {<<"ShaderNodeMix", "in", "Color2">>}
      [] OTHER -> {}

\* The lookups the add-on guards with a membership test, a candidate list,
\* .get() or hasattr.
GuardedKeys ==
    {<<"NodeGroupInput", "out", "Ramp Pos">>,
     <<"NodeGroupOutput", "in", "Mask">>,
     <<"ShaderNodeCombineColor", "in", "Red">>,
     <<"ShaderNodeCombineColor", "in", "Green">>,
     <<"ShaderNodeCombineColor", "in", "Blue">>,
     <<"ShaderNodeMix", "in", "Factor">>,
     <<"ShaderNodeMix", "in", "A">>,
     <<"ShaderNodeMix", "in", "B">>,
     <<"ShaderNodeMix", "attr", "clamp_result">>}

\* The hosts considered: the standard one; one probed name absent; one
\* probed name replaced by its older name; every guarded name absent; a
\* group output node with no input at all.
HostProfiles ==
    {StandardHost}
      \cup {StandardHost \ {k} : k \in ProbedKeys}
      \cup {(StandardHost \ {k}) \cup LegacyOf(k) : k \in ProbedKeys}
      \cup {StandardHost \ GuardedKeys}
      \cup {StandardHost \ {<<"NodeGroupOutput", "in", "Mask">>,
                            <<"NodeGroupOutput", "in", "">>}}

\* ------------------------------------------------------ nodes and sockets

NewNodeRecord(type) ==
    [type |-> type, node_tree |-> 0, attrs |-> {}, defaults |-> {}]

\* Names of the interface items of a group on one side ('INPUT'/'OUTPUT'),
\* in interface order.
RECURSIVE InterfaceNames(_, _)
InterfaceNames(iface, in_out) ==
    IF iface = <<>> THEN <<>>
    ELSE (IF Head(iface).in_out = in_out THEN <<Head(iface).name>> ELSE <<>>)
           \o InterfaceNames(Tail(iface), in_out)

RECURSIVE FilterPresent(_, _, _, _)
FilterPresent(hostv, type, dir, names) ==
    IF names = <<>> THEN <<>>
    ELSE (IF <<type, dir, Head(names)>> \in hostv THEN <<Head(names)>> ELSE <<>>)
           \o FilterPresent(hostv, type, dir, Tail(names))

\* node.inputs / node.outputs: the names of a node's sockets on one side,
\* in order.  A group node (ShaderNodeGroup) mirrors the interface of the
\* group it references; every other node has what the host gives its type.
NodeSockets(hostv, groups, node, dir) ==
    IF node.type = "ShaderNodeGroup"
    THEN IF node.node_tree = 0 THEN <<>>
         ELSE InterfaceNames(groups[node.node_tree].interface,
                             IF dir = "in" THEN "INPUT" ELSE "OUTPUT")
    ELSE FilterPresent(hostv, node.type, dir, SocketUniverse(node.type, dir))

\* A socket reference as the source writes it: node.inputs["Name"] or
\* node.inputs[i].
ByName(node, dir, name) ==
    [node |-> node, dir |-> dir, by |-> "name", name |-> name, index |-> 0]

ByIndex(node, dir, index) ==
    [node |-> node, dir |-> dir, by |-> "index", name |-> "", index |-> index]

NoSocket == [node |-> 0, dir |-> "", name |-> "", index |-> 0]

\* Evaluate a socket reference: the socket, or the exception the subscript
\* raises (KeyError for an absent name, IndexError for an index past the
\* end).  A name finds the first socket so called.
Resolve(hostv, groups, nodes, ref) ==
    LET seq == NodeSockets(hostv, groups, nodes[ref.node], ref.dir)
    IN  IF ref.by = "name"
        THEN IF ref.name \in Range(seq)
             THEN LET i == CHOOSE j \in 1..Len(seq) :
                             /\ seq[j] = ref.name
                             /\ \A h \in 1..(j - 1) : seq[h] # ref.name
                  IN  [exc |-> "",
                       sock |-> [node |-> ref.node, dir |-> ref.dir,
                                 name |-> ref.name, index |-> i - 1]]
             ELSE [exc |-> "KeyError", sock |-> NoSocket]
        ELSE IF ref.index < Len(seq)
             THEN [exc |-> "",
                   sock |-> [node |-> ref.node, dir |-> ref.dir,
                             name |-> seq[ref.index + 1], index |-> ref.index]]
             ELSE [exc |-> "IndexError", sock |-> NoSocket]

\* ------------------------------------------------- statements of a builder

\* One statement of a builder's body, to be run against a node tree.
NoRef == ByIndex(0, "", 0)

\* nodes.new(type)
StNew(type) ==
    [kind |-> "new", type |-> type, node |-> 0, attr |-> "", value |-> "",
     tree |-> 0, src |-> NoRef, dst |-> NoRef]

\* node.attr = value
StAttr(node, attr, value) ==
    [kind |-> "attr", type |-> "", node |-> node, attr |-> attr, value |-> value,
     tree |-> 0, src |-> NoRef, dst |-> NoRef]

\* node.node_tree = group
StTree(node, tree) ==
    [kind |-> "tree", type |-> "", node |-> node, attr |-> "", value |-> "",
     tree |-> tree, src |-> NoRef, dst |-> NoRef]

\* <socket>.default_value = value
StDefault(dst, value) ==
    [kind |-> "default", type |-> "", node |-> 0, attr |-> "", value |-> value,
     tree |-> 0, src |-> NoRef, dst |-> dst]

\* links.new(src, dst)
StLink(src, dst) ==
    [kind |-> "link", type |-> "", node |-> 0, attr |-> "", value |-> "",
     tree |-> 0, src |-> src, dst |-> dst]

\* for n in list(nodes): nodes.remove(n)
StClear ==
    [kind |-> "clear", type |-> "", node |-> 0, attr |-> "", value |-> "",
     tree |-> 0, src |-> NoRef, dst |-> NoRef]

SetAttr(node, attr, value) ==
    [node EXCEPT !.attrs = {p \in @ : p[1] # attr} \cup {<<attr, value>>}]

SetDefault(node, sock, value) ==
    [node EXCEPT !.defaults =
        {d \in @ : d.index # sock.index}
          \cup {[name |-> sock.name, index |-> sock.index, value |-> value]}]

\* links.new: an input socket holds one link, so a link into an input that
\* is already linked replaces the old one.
AddLink(links, from, to) ==
    {l \in links : l.to # to} \cup {[from |-> from, to |-> to]}

\* A statement names a node by its rank among the nodes the builder made;
\* the tree holds t.base nodes that were there before them.
At(t, ref) == [ref EXCEPT !.node = @ + t.base]

\* Run one statement on a tree (its nodes, its links, the number of nodes
\* that were there before the builder's, the exception raised so far): a
\* raised exception ends the body, and what was done stays done.
Step(hostv, groups, t, st) ==
    IF t.raised # "" THEN t
    ELSE CASE st.kind = "new" ->
                [t EXCEPT !.nodes = Append(@, NewNodeRecord(st.type))]
           [] st.kind = "clear" ->
                [t EXCEPT !.nodes = <<>>, !.links = {}, !.base = 0]
           [] st.kind = "attr" ->
                [t EXCEPT !.nodes[t.base + st.node] = SetAttr(@, st.attr, st.value)]
           [] st.kind = "tree" ->
                [t EXCEPT !.nodes[t.base + st.node].node_tree = st.tree]
           [] st.kind = "default" ->
                LET r == Resolve(hostv, groups, t.nodes, At(t, st.dst))
                IN  IF r.exc # "" THEN [t EXCEPT !.raised = r.exc]
                    ELSE [t EXCEPT !.nodes[r.sock.node] = SetDefault(@, r.sock, st.value)]
           [] st.kind = "link" ->
                LET a == Resolve(hostv, groups, t.nodes, At(t, st.src))
                    b == Resolve(hostv, groups, t.nodes, At(t, st.dst))
                IN  IF a.exc # "" THEN [t EXCEPT !.raised = a.exc]
                    ELSE IF b.exc # "" THEN [t EXCEPT !.raised = b.exc]
                    ELSE [t EXCEPT !.links = AddLink(@, a.sock, b.sock)]

RECURSIVE Run(_, _, _, _)
Run(hostv, groups, t, stmts) ==
    IF stmts = <<>> THEN t
    ELSE Run(hostv, groups, Step(hostv, groups, t, Head(stmts)), Tail(stmts))

\* ------------------------------------------------------- host collections

\* Names in use in a collection (bpy.data.node_groups, bpy.data.materials).
NamesOf(coll) == {coll[i].name : i \in 1..Len(coll)}

\* bpy.data.<collection>.get(name): the object so called, 0 for None.
Get(coll, name) ==
    IF name \in NamesOf(coll)
    THEN CHOOSE i \in 1..Len(coll) : coll[i].name = name
    ELSE 0

\* The numeric suffix the host appends to make a name unique: ".001", ...
Pad3(n) ==
    IF n < 10 THEN "00" \o ToString(n)
    ELSE IF n < 100 THEN "0" \o ToString(n)
    ELSE ToString(n)

\* The host keeps the names of a collection unique: a name already in use
\* by another object gets the first free numeric suffix.
UniqueName(name, used) ==
    IF name \notin used THEN name
    ELSE LET n == CHOOSE k \in 1..(Cardinality(used) + 1) :
                    /\ (name \o "." \o Pad3(k)) \notin used
                    /\ \A j \in 1..(k - 1) : (name \o "." \o Pad3(j)) \in used
         IN  name \o "." \o Pad3(n)

\* ng.name = new_name
Rename(coll, i, new_name) ==
    [coll EXCEPT ![i].name =
        UniqueName(new_name, {coll[j].name : j \in (1..Len(coll)) \ {i}})]

\* ------------------------------------------------------------ the helpers

\* Mutant: the test looks at the INPUT side of the interface.
_group_has_output_socket_wrong_side(ng, name) ==
    \E i \in 1..Len(ng.interface) :
        /\ ng.interface[i].in_out = "INPUT"
        /\ ng.interface[i].name = name

\* Does the group's interface have an OUTPUT socket with the given name?
_group_has_output_socket(ng, name) ==
    \E i \in 1..Len(ng.interface) :
        /\ ng.interface[i].in_out = "OUTPUT"
        /\ ng.interface[i].name = name

\* Mutant: the suffix is the index before its increment (base_1 first).
RECURSIVE BackupName_suffix_from_one(_, _, _, _)
BackupName_suffix_from_one(groups, base, idx, new_name) ==
    IF Get(groups, new_name) # 0
    THEN BackupName_suffix_from_one(groups, base, idx + 1,
                                    base \o "_" \o ToString(idx))
    ELSE new_name

\* The while loop of the helper: the first of base, base_2, base_3, ...
\* that names no group.
RECURSIVE BackupName(_, _, _, _)
BackupName(groups, base, idx, new_name) ==
    IF Get(groups, new_name) # 0
    THEN BackupName(groups, base, idx + 1, base \o "_" \o ToString(idx + 1))
    ELSE new_name

\* Mutant: the helper does not test for the 'Mask' output and renames any
\* group found under the name.
_backup_existing_group_always(groups, group_name) ==
    LET ng == Get(groups, group_name)
    IN  IF ng = 0 THEN groups
        ELSE LET base == group_name \o "_OLD"
             IN  Rename(groups, ng, BackupName(groups, base, 1, base))

\* Mutant: the helper renames nothing.
_backup_existing_group_never(groups, group_name) == groups

\* If a group exists but does not have the 'Mask' output, rename it.
_backup_existing_group_if_incompatible(groups, group_name) ==
    LET ng == Get(groups, group_name)
    IN  IF ng = 0 THEN groups
        ELSE IF _group_has_output_socket(groups[ng], "Mask") THEN groups
        ELSE LET base == group_name \o "_OLD"
             IN  Rename(groups, ng, BackupName(groups, base, 1, base))

\* ------------------------------------------------- the mask group builder

\* The nodes of the group, by creation order.
n_in == 1

n_out == 2

n_diffuse == 3

n_s2rgb == 4

n_rgb2bw == 5

n_gt == 6

n_inv == 7

n_combine == 8

\* Mutant: the Ramp Pos input keeps the host's default and range.
GroupInterface_unset_default ==
    << [name |-> "Ramp Pos", in_out |-> "INPUT", socket_type |-> "NodeSocketFloat",
        default_value |-> "", min_value |-> "", max_value |-> ""],
       [name |-> "Mask", in_out |-> "OUTPUT", socket_type |-> "NodeSocketColor",
        default_value |-> "", min_value |-> "", max_value |-> ""] >>

\* ng.interface after the two new_socket calls: the Ramp Pos input with its
\* default and range, and the Mask output ("" is a value the add-on leaves
\* to the host).
GroupInterface ==
    << [name |-> "Ramp Pos", in_out |-> "INPUT", socket_type |-> "NodeSocketFloat",
        default_value |-> "0.7", min_value |-> "0.0", max_value |-> "1.0"],
       [name |-> "Mask", in_out |-> "OUTPUT", socket_type |-> "NodeSocketColor",
        default_value |-> "", min_value |-> "", max_value |-> ""] >>

\* `name in node.inputs` / `name in node.outputs` for a node of a host type.
In(hostv, type, dir, name) ==
    name \in Range(FilterPresent(hostv, type, dir, SocketUniverse(type, dir)))

\* One loop of link_scalar_to_rgb: link into the first candidate channel
\* name the combine node has, into none if it has neither.
LinkFirstChannel(hostv, out_socket, candidates) ==
    IF In(hostv, "ShaderNodeCombineColor", "in", candidates[1])
    THEN <<StLink(out_socket, ByName(n_combine, "in", candidates[1]))>>
    ELSE IF In(hostv, "ShaderNodeCombineColor", "in", candidates[2])
    THEN <<StLink(out_socket, ByName(n_combine, "in", candidates[2]))>>
    ELSE <<>>

link_scalar_to_rgb(hostv, out_socket) ==
    LinkFirstChannel(hostv, out_socket, <<"Red", "R">>)
      \o LinkFirstChannel(hostv, out_socket, <<"Green", "G">>)
      \o LinkFirstChannel(hostv, out_socket, <<"Blue", "B">>)

\* Mutant: the link is made without the membership test.
RampPosStatements_unguarded(hostv) ==
    <<StLink(ByName(n_in, "out", "Ramp Pos"), ByIndex(n_gt, "in", 1))>>

\* Ramp Pos -> threshold input, or the constant when the group input node
\* does not show it.
RampPosStatements(hostv) ==
    IF In(hostv, "NodeGroupInput", "out", "Ramp Pos")
    THEN <<StLink(ByName(n_in, "out", "Ramp Pos"), ByIndex(n_gt, "in", 1))>>
    ELSE <<StDefault(ByIndex(n_gt, "in", 1), "0.7")>>

\* Mutant: the constant 1.0 goes to the second input (x - 1).
InvertStatements_x_minus_one ==
    << StNew("ShaderNodeMath"),
       StAttr(n_inv, "location", "(170, 0)"),
       StAttr(n_inv, "operation", "SUBTRACT"),
       StDefault(ByIndex(n_inv, "in", 1), "1.0") >>

\* The fixed invert: 1 - x.
InvertStatements ==
    << StNew("ShaderNodeMath"),
       StAttr(n_inv, "location", "(170, 0)"),
       StAttr(n_inv, "operation", "SUBTRACT"),
       StDefault(ByIndex(n_inv, "in", 0), "1.0") >>

\* Combine Color -> the Mask input of the group output, or its first input.
OutputStatements(hostv) ==
    IF In(hostv, "NodeGroupOutput", "in", "Mask")
    THEN <<StLink(ByName(n_combine, "out", "Color"), ByName(n_out, "in", "Mask"))>>
    ELSE <<StLink(ByName(n_combine, "out", "Color"), ByIndex(n_out, "in", 0))>>

\* The body of get_or_create_group from the node removal to the labels.
GroupBody(hostv) ==
    << StClear,
       StNew("NodeGroupInput"),
       StAttr(n_in, "location", "(-900, 0)"),
       StNew("NodeGroupOutput"),
       StAttr(n_out, "location", "(620, 0)"),
       StNew("ShaderNodeBsdfDiffuse"),
       StAttr(n_diffuse, "location", "(-700, 0)"),
       StDefault(ByName(n_diffuse, "in", "Roughness"), "0.0"),
       StDefault(ByName(n_diffuse, "in", "Color"), "(1.0, 1.0, 1.0, 1.0)"),
       StNew("ShaderNodeShaderToRGB"),
       StAttr(n_s2rgb, "location", "(-480, 0)"),
       StNew("ShaderNodeRGBToBW"),
       StAttr(n_rgb2bw, "location", "(-260, 0)"),
       StNew("ShaderNodeMath"),
       StAttr(n_gt, "location", "(-40, 0)"),
       StAttr(n_gt, "operation", "GREATER_THAN") >>
      \o InvertStatements
      \o << StNew("ShaderNodeCombineColor"),
            StAttr(n_combine, "location", "(380, 0)"),
            StLink(ByName(n_diffuse, "out", "BSDF"), ByName(n_s2rgb, "in", "Shader")),
            StLink(ByName(n_s2rgb, "out", "Color"), ByName(n_rgb2bw, "in", "Color")),
            StLink(ByName(n_rgb2bw, "out", "Val"), ByIndex(n_gt, "in", 0)) >>
      \o RampPosStatements(hostv)
      \o << StLink(ByIndex(n_gt, "out", 0), ByIndex(n_inv, "in", 1)) >>
      \o link_scalar_to_rgb(hostv, ByIndex(n_inv, "out", 0))
      \o OutputStatements(hostv)
      \o << StAttr(n_gt, "label", "Threshold (Ramp Pos)"),
            StAttr(n_inv, "label", "Invert (fixed)"),
            StAttr(n_combine, "label", "Mask to Color") >>

EmptyTree == [nodes |-> <<>>, links |-> {}, base |-> 0, raised |-> ""]

\* bpy.data.node_groups.new(name, "ShaderNodeTree"): a new, empty group
\* under a name the host makes unique.
node_groups_new(groups, name) ==
    Append(groups, [name |-> UniqueName(name, NamesOf(groups)),
                    interface |-> <<>>, nodes |-> <<>>, links |-> {}])

\* The outcome of a call that built group `new` with tree `t`: the
\* document's groups after it, the group returned (0 when the call raised),
\* the exception raised ("" for none), that the call built a group, and the
\* group the helper renamed (0 for none).
BuiltOutcome(groups, new, t, backed) ==
    [groups |-> [groups EXCEPT ![new].nodes = t.nodes, ![new].links = t.links],
     result |-> IF t.raised = "" THEN new ELSE 0,
     raised |-> t.raised,
     built |-> TRUE, backed_up |-> backed]

\* The interface sockets of the new (last) group.
WithInterface(groups) ==
    [groups EXCEPT ![Len(groups)].interface = GroupInterface]

\* get_or_create_group from node_groups.new on: the new group, its
\* interface, its nodes and links.
BuildGroup(hostv, groups, group_name, backed) ==
    BuiltOutcome(WithInterface(node_groups_new(groups, group_name)),
                 Len(groups) + 1,
                 Run(hostv, groups, EmptyTree, GroupBody(hostv)),
                 backed)

\* Mutant: a group is built whether or not a compatible one exists.
ReuseOrBuild_always_build(hostv, groups, ng, group_name, backed) ==
    BuildGroup(hostv, groups, group_name, backed)

\* get_or_create_group after the helper ran: the group called group_name
\* is returned as it is if it has the Mask output, and built otherwise.
ReuseOrBuild(hostv, groups, ng, group_name, backed) ==
    IF ng # 0 /\ _group_has_output_socket(groups[ng], "Mask")
    THEN [groups |-> groups, result |-> ng, raised |-> "",
          built |-> FALSE, backed_up |-> backed]
    ELSE BuildGroup(hostv, groups, group_name, backed)

\* The group the helper renamed, 0 if it renamed none.
BackedUp(before, after, group_name) ==
    IF after = before THEN 0 ELSE Get(before, group_name)

AfterBackup(hostv, before, after, group_name) ==
    ReuseOrBuild(hostv, after, Get(after, group_name), group_name,
                 BackedUp(before, after, group_name))

get_or_create_group(hostv, groups, group_name) ==
    AfterBackup(hostv, groups,
                _backup_existing_group_if_incompatible(groups, group_name),
                group_name)

\* --------------------------------------------------- the material builder

\* The nodes of the material, by creation order.
mat_n_out == 1

n_em == 2

n_group == 3

n_mix == 4

\* Mutant: a material that bears the name is taken over and moved to the
\* end of the collection, a new one made only when there is none.
materials_get_or_new(mats, mat_name) ==
    IF mat_name \in NamesOf(mats)
    THEN Append(SelectSeq(mats, LAMBDA m : m.name # mat_name),
                [name |-> mat_name, use_nodes |-> FALSE, nodes |-> <<>>, links |-> {}])
    ELSE Append(mats, [name |-> mat_name, use_nodes |-> FALSE,
                       nodes |-> <<>>, links |-> {}])

\* bpy.data.materials.new(mat_name): always a new material, under a name the
\* host makes unique (mat_name, else mat_name.001, ...).
materials_new(mats, mat_name) ==
    Append(mats, [name |-> UniqueName(mat_name, NamesOf(mats)),
                  use_nodes |-> FALSE, nodes |-> <<>>, links |-> {}])

\* mat.use_nodes = True: the host fills the new node tree with its default
\* nodes, a Principled BSDF linked to a Material Output.
DefaultTree(hostv) ==
    [Run(hostv, <<>>, EmptyTree,
         << StNew("ShaderNodeBsdfPrincipled"),
            StNew("ShaderNodeOutputMaterial"),
            StLink(ByIndex(1, "out", 0), ByIndex(2, "in", 0)) >>)
       EXCEPT !.raised = "", !.base = 2]

\* Mutant: the default nodes are not removed.
MaterialHead_keeps_default_nodes ==
    << StNew("ShaderNodeOutputMaterial"),
       StAttr(mat_n_out, "location", "(820, 0)"),
       StNew("ShaderNodeEmission"),
       StAttr(n_em, "location", "(600, 0)"),
       StDefault(ByName(n_em, "in", "Strength"), "1.0") >>

\* The body of create_celllook_material up to the call of
\* get_or_create_group.
MaterialHead ==
    << StClear,
       StNew("ShaderNodeOutputMaterial"),
       StAttr(mat_n_out, "location", "(820, 0)"),
       StNew("ShaderNodeEmission"),
       StAttr(n_em, "location", "(600, 0)"),
       StDefault(ByName(n_em, "in", "Strength"), "1.0") >>

\* set_socket_color: the default of the first candidate input the node has.
set_socket_color(hostv, node, type, socket_candidates, value) ==
    IF In(hostv, type, "in", socket_candidates[1])
    THEN <<StDefault(ByName(node, "in", socket_candidates[1]), value)>>
    ELSE IF In(hostv, type, "in", socket_candidates[2])
    THEN <<StDefault(ByName(node, "in", socket_candidates[2]), value)>>
    ELSE <<>>

\* The first of the named inputs the Mix node has, "" for None.
FacSocket(hostv) ==
    IF In(hostv, "ShaderNodeMix", "in", "Factor") THEN "Factor"
    ELSE IF In(hostv, "ShaderNodeMix", "in", "Fac") THEN "Fac"
    ELSE ""

\* Mutant: the Color output is preferred to the Mask output.
FactorStatements_color_first(hostv, groups, group) ==
    LET outs == InterfaceNames(groups[group].interface, "OUTPUT")
        fac == FacSocket(hostv)
    IN  IF fac = "" THEN <<>>
        ELSE IF "Color" \in Range(outs)
        THEN <<StLink(ByName(n_group, "out", "Color"), ByName(n_mix, "in", fac))>>
        ELSE IF "Mask" \in Range(outs)
        THEN <<StLink(ByName(n_group, "out", "Mask"), ByName(n_mix, "in", fac))>>
        ELSE IF Len(outs) > 0
        THEN <<StLink(ByIndex(n_group, "out", 0), ByName(n_mix, "in", fac))>>
        ELSE <<>>

\* Group mask -> Mix factor: from the group node's Mask output, else its
\* Color output, else its first output, if it has one.
FactorStatements(hostv, groups, group) ==
    LET outs == InterfaceNames(groups[group].interface, "OUTPUT")
        fac == FacSocket(hostv)
    IN  IF fac = "" THEN <<>>
        ELSE IF "Mask" \in Range(outs)
        THEN <<StLink(ByName(n_group, "out", "Mask"), ByName(n_mix, "in", fac))>>
        ELSE IF "Color" \in Range(outs)
        THEN <<StLink(ByName(n_group, "out", "Color"), ByName(n_mix, "in", fac))>>
        ELSE IF Len(outs) > 0
        THEN <<StLink(ByIndex(n_group, "out", 0), ByName(n_mix, "in", fac))>>
        ELSE <<>>

\* Mutant: the Mix result drives the emission strength, not its colour.
ChainStatements_into_strength ==
    << StLink(ByName(n_mix, "out", "Result"), ByName(n_em, "in", "Strength")),
       StLink(ByName(n_em, "out", "Emission"), ByName(mat_n_out, "in", "Surface")) >>

\* Mix -> Emission -> Output.
ChainStatements ==
    << StLink(ByName(n_mix, "out", "Result"), ByName(n_em, "in", "Color")),
       StLink(ByName(n_em, "out", "Emission"), ByName(mat_n_out, "in", "Surface")) >>

\* The body of create_celllook_material after get_or_create_group returned
\* `group`.
MaterialTail(hostv, groups, group) ==
    << StNew("ShaderNodeGroup"),
       StTree(n_group, group),
       StAttr(n_group, "location", "(0, 0)"),
       StAttr(n_group, "label", "Cell Look Mask (LOCKED)"),
       StNew("ShaderNodeMix"),
       StAttr(n_mix, "location", "(300, 0)"),
       StAttr(n_mix, "data_type", "RGBA"),
       StAttr(n_mix, "blend_type", "MIX"),
       StAttr(n_mix, "clamp_factor", "True") >>
      \o (IF <<"ShaderNodeMix", "attr", "clamp_result">> \in hostv
          THEN <<StAttr(n_mix, "clamp_result", "False")>> ELSE <<>>)
      \o set_socket_color(hostv, n_mix, "ShaderNodeMix", <<"A", "Color1">>,
                          "(1.0, 1.0, 1.0, 1.0)")
      \o set_socket_color(hostv, n_mix, "ShaderNodeMix", <<"B", "Color2">>,
                          "(0.0, 0.0, 0.0, 1.0)")
      \o FactorStatements(hostv, groups, group)
      \o ChainStatements

\* The material (the last one) with the tree a run left.
WithTree(mats, t) ==
    [mats EXCEPT ![Len(mats)].use_nodes = TRUE,
                 ![Len(mats)].nodes = t.nodes,
                 ![Len(mats)].links = t.links]

\* The outcome of create_celllook_material: the document's groups and
\* materials after it, the material returned (0 when the call raised), the
\* exception raised, the group get_or_create_group returned and what that
\* call did.
MaterialOutcome(g, mats, t) ==
    [groups |-> g.groups, materials |-> WithTree(mats, t),
     result |-> IF t.raised = "" THEN Len(mats) ELSE 0,
     raised |-> t.raised, group |-> g.result,
     built |-> g.built, backed_up |-> g.backed_up]

\* create_celllook_material after get_or_create_group: its exception
\* propagates, its group is wired into the material otherwise.
AfterGroup(hostv, g, mats, head) ==
    IF g.raised # ""
    THEN MaterialOutcome(g, mats, [head EXCEPT !.raised = g.raised])
    ELSE MaterialOutcome(g, mats,
                         Run(hostv, g.groups, head,
                             MaterialTail(hostv, g.groups, g.result)))

\* get_or_create_group was not reached.
NoGroupCall(groups) ==
    [groups |-> groups, result |-> 0, raised |-> "", built |-> FALSE,
     backed_up |-> 0]

\* create_celllook_material after the statements before the group call.
AfterHead(hostv, groups, mats, head, group_name) ==
    IF head.raised # ""
    THEN MaterialOutcome(NoGroupCall(groups), mats, head)
    ELSE AfterGroup(hostv, get_or_create_group(hostv, groups, group_name),
                    mats, head)

create_celllook_material(hostv, groups, mats, mat_name, group_name) ==
    AfterHead(hostv, groups, materials_new(mats, mat_name),
              Run(hostv, groups, DefaultTree(hostv), MaterialHead),
              group_name)

\* ------------------------------------------------------ the panel context

\* The identifiers the engine enum is probed for, and the two others every
\* host registers.
EngineNames ==
    {"BLENDER_EEVEE_NEXT", "BLENDER_EEVEE", "BLENDER_WORKBENCH", "CYCLES"}

\* The attribute names the operator tries on scene.eevee, in list order.
shadow_bool_candidates ==
    <<"use_shadows", "use_shadow", "use_shadow_maps", "use_shadow_tracing">>

ray_candidates ==
    <<"shadow_ray_count", "shadow_rays", "shadow_ray_samples", "shadow_samples">>

step_candidates ==
    <<"shadow_step_count", "shadow_steps", "shadow_ray_steps">>

\* An attribute of a settings object: its name, whether assignment works
\* (an assignment to a read-only property raises), and its value.
Attribute(name, writable, value) ==
    [name |-> name, writable |-> writable, value |-> value]

\* The value an attribute holds before the operator touches it.
HostValue == "host"

\* scene.eevee of the targeted host (use_shadows, shadow_ray_count and
\* shadow_step_count exist there).
StandardEevee ==
    [present |-> TRUE,
     attrs |-> {Attribute("use_shadows", TRUE, HostValue),
                Attribute("shadow_ray_count", TRUE, HostValue),
                Attribute("shadow_step_count", TRUE, HostValue)}]

\* getattr(scene, "eevee", None) is None.
NoEevee == [present |-> FALSE, attrs |-> {}]

\* scene.render: the engine in use and the enum items that
\* bl_rna.properties[prop_name].enum_items lists, as <<prop_name,
\* identifier>> pairs (none when the lookup raises).
Render(engine, items) ==
    [engine |-> engine, enum_items |-> {<<"engine", e>> : e \in items}]

\* scene.view_settings: whether it is there, whether it has the
\* view_transform attribute, the names that attribute accepts and its value.
ViewSettings(present, has_attr, accepts) ==
    [present |-> present, has_view_transform |-> has_attr,
     accepts |-> accepts, view_transform |-> HostValue]

\* context.active_object: None, or an object whose data may have material
\* slots (a mesh has, a camera has not); a slot holds a material, 0 for an
\* empty slot.
NoObject == [present |-> FALSE, has_materials |-> FALSE, materials |-> <<>>]

Object(has_materials, slots) ==
    [present |-> TRUE, has_materials |-> has_materials, materials |-> slots]

Scene(render, eevee, view_settings) ==
    [render |-> render, eevee |-> eevee, view_settings |-> view_settings,
     celllook_props |-> [material_name |-> DEFAULT_MATERIAL_NAME]]

Context(scene, active_object) ==
    [scene |-> scene, active_object |-> active_object]

\* A new file in the targeted host: EEVEE Next in use, the default cube's
\* mesh without a material slot.
DefaultContext ==
    Context(Scene(Render("BLENDER_EEVEE_NEXT",
                         {"BLENDER_EEVEE_NEXT", "BLENDER_WORKBENCH", "CYCLES"}),
                  StandardEevee,
                  ViewSettings(TRUE, TRUE, {"Standard", "AgX"})),
            Object(TRUE, <<>>))

\* What an operator left behind: the reports it made (self.report), its msg
\* list when it returned, and the value it returned ("" when it raised or
\* none has run).
Report(reports, msg, returned) ==
    [reports |-> reports, msg |-> msg, returned |-> returned]

NoReport == Report(<<>>, <<>>, "")

\* ------------------------------------------------ render settings operator

\* _set_if_exists: the object after the attempt, and whether the attribute
\* was set (it exists and the assignment did not raise).
_set_if_exists(obj, attr, value) ==
    IF \E a \in obj.attrs : a.name = attr /\ a.writable
    THEN [obj |-> [obj EXCEPT !.attrs =
                     {a \in @ : a.name # attr} \cup {Attribute(attr, TRUE, value)}],
          ok |-> TRUE]
    ELSE [obj |-> obj, ok |-> FALSE]

_enum_contains(render_settings, prop_name, identifier) ==
    <<prop_name, identifier>> \in render_settings.enum_items

\* Mutant: the loop has no break, every candidate is tried.
RECURSIVE SetFirst_no_break(_, _, _, _)
SetFirst_no_break(obj, candidates, value, found) ==
    IF candidates = <<>> THEN [obj |-> obj, attr |-> found]
    ELSE SetFirst_no_break(_set_if_exists(obj, Head(candidates), value).obj,
                           Tail(candidates), value,
                           IF found = "" /\ _set_if_exists(obj, Head(candidates), value).ok
                           THEN Head(candidates) ELSE found)

\* One candidate loop of execute: try the names in order, stop at the first
\* one that is set.  The object after the loop and the name that was set
\* ("" when the loop ran out).
RECURSIVE SetFirst(_, _, _, _)
SetFirst(obj, candidates, value, found) ==
    IF candidates = <<>> THEN [obj |-> obj, attr |-> found]
    ELSE IF _set_if_exists(obj, Head(candidates), value).ok
    THEN [obj |-> _set_if_exists(obj, Head(candidates), value).obj,
          attr |-> Head(candidates)]
    ELSE SetFirst(obj, Tail(candidates), value, found)

\* The msg item of one candidate loop.
LoopItem(label, value, attr) ==
    IF attr = "" THEN label \o " -> (property not found, skipped)"
    ELSE label \o " -> " \o value \o " (" \o attr \o ")"

\* 1) the engine to switch to, "" for None.
EngineTarget(render) ==
    IF _enum_contains(render, "engine", "BLENDER_EEVEE_NEXT")
    THEN "BLENDER_EEVEE_NEXT"
    ELSE IF _enum_contains(render, "engine", "BLENDER_EEVEE") THEN "BLENDER_EEVEE"
    ELSE ""

\* The operator's progress: the scene, the msg list and the reports so far.
Progress(scene, msg, reports) ==
    [scene |-> scene, msg |-> msg, reports |-> reports]

Warning(message) == [type |-> "WARNING", message |-> message]

Info(message) == [type |-> "INFO", message |-> message]

\* 1) Render Engine.
EngineStage(p, target) ==
    IF target # ""
    THEN IF p.scene.render.engine # target
         THEN Progress([p.scene EXCEPT !.render.engine = target],
                       Append(p.msg, "Render Engine -> " \o target), p.reports)
         ELSE Progress(p.scene, Append(p.msg, "Render Engine already EEVEE"),
                       p.reports)
    ELSE Progress(p.scene, p.msg,
                  Append(p.reports,
                         Warning("Could not find an EEVEE engine enum on this Blender version.")))

\* One candidate loop on scene.eevee and its msg item.
LoopStage(p, r, label, value) ==
    Progress([p.scene EXCEPT !.eevee = r.obj],
             Append(p.msg, LoopItem(label, value, r.attr)), p.reports)

ShadowsLoop(p) ==
    LoopStage(p, SetFirst(p.scene.eevee, shadow_bool_candidates, "True", ""),
              "Shadows", "ON")

RaysLoop(p) ==
    LoopStage(p, SetFirst(p.scene.eevee, ray_candidates, "1", ""),
              "Shadows Rays", "1")

StepsLoop(p) ==
    LoopStage(p, SetFirst(p.scene.eevee, step_candidates, "1", ""),
              "Shadows Steps", "1")

\* 2) Shadows: enable, rays, steps.
ShadowStage(p) ==
    IF ~ p.scene.eevee.present
    THEN Progress(p.scene, p.msg,
                  Append(p.reports,
                         Warning("scene.eevee settings not found (unexpected).")))
    ELSE StepsLoop(RaysLoop(ShadowsLoop(p)))

\* 3) Color Management > View.
ViewStage(p) ==
    IF p.scene.view_settings.present /\ p.scene.view_settings.has_view_transform
    THEN IF "Standard" \in p.scene.view_settings.accepts
         THEN Progress([p.scene EXCEPT !.view_settings.view_transform = "Standard"],
                       Append(p.msg, "View Transform -> Standard"), p.reports)
         ELSE Progress(p.scene,
                       Append(p.msg, "View Transform -> (failed to set, skipped)"),
                       p.reports)
    ELSE Progress(p.scene,
                  Append(p.msg, "View Transform -> (not available, skipped)"),
                  p.reports)

\* " / ".join(items)
RECURSIVE Join(_)
Join(items) ==
    IF items = <<>> THEN ""
    ELSE IF Len(items) = 1 THEN items[1]
    ELSE items[1] \o " / " \o Join(Tail(items))

\* msg[:n]
Slice(msg, n) == SubSeq(msg, 1, IF Len(msg) < n THEN Len(msg) ELSE n)

\* Mutant: the whole msg list is reported.
ReportText_whole_list(msg) == Join(msg)

\* The text of the closing report: the first three items, and " ..." when
\* there are more.
ReportText(msg) ==
    Join(Slice(msg, 3)) \o (IF Len(msg) > 3 THEN " ..." ELSE "")

\* The closing report and the return value.
Finish(p) ==
    [scene |-> p.scene,
     report |-> Report(Append(p.reports, Info(ReportText(p.msg))), p.msg,
                       "{'FINISHED'}")]

\* CELLLOOK_OT_apply_recommended_settings.execute: the scene after it and
\* what it reported and returned.
apply_recommended_settings(scene) ==
    Finish(ViewStage(ShadowStage(
        EngineStage(Progress(scene, <<>>, <<>>), EngineTarget(scene.render)))))

\* -------------------------------------------------------- create operator

\* The slot assignment of CELLLOOK_OT_create.execute: the material goes
\* into the first slot of the active object, or into a new slot when it has
\* none; an object without material slots, or no object, is left alone.
AssignMaterial(obj, mat) ==
    IF obj.present /\ obj.has_materials
    THEN IF obj.materials # <<>>
         THEN [obj EXCEPT !.materials[1] = mat]
         ELSE [obj EXCEPT !.materials = Append(@, mat)]
    ELSE obj

\* CELLLOOK_OT_create.execute after create_celllook_material: when that
\* raised the operator ends there; otherwise the material is assigned,
\* reported, and {'FINISHED'} returned.
AfterCreate(r, ctx) ==
    IF r.raised # ""
    THEN [made |-> r, context |-> ctx, report |-> NoReport]
    ELSE [made |-> r,
          context |-> [ctx EXCEPT !.active_object = AssignMaterial(@, r.result)],
          report |-> Report(<<Info("Created material: "
                                     \o r.materials[r.result].name)>>,
                            <<>>, "{'FINISHED'}")]

CELLLOOK_OT_create_execute(hostv, groups, mats, ctx) ==
    AfterCreate(create_celllook_material(hostv, groups, mats,
                                         ctx.scene.celllook_props.material_name,
                                         GROUP_NAME_DEFAULT),
                ctx)

\* ------------------------------------------------------------ the machine

\* No call has returned since the document last changed under the add-on.
NoCall ==
    [op |-> "", mat_name |-> "", group_name |-> "", result |-> 0, raised |-> "",
     group |-> 0, built |-> FALSE, backed_up |-> 0]

\* A new document, opened in one of the hosts.
Init ==
    /\ host \in HostProfiles
    /\ node_groups = <<>>
    /\ materials = <<>>
    /\ ret = NoCall
    /\ context = DefaultContext
    /\ report = NoReport

\* A caller runs get_or_create_group(group_name).
GetOrCreateGroup(group_name) ==
    \E r \in {get_or_create_group(host, node_groups, group_name)} :
        /\ Len(r.groups) <= MaxGroups
        /\ node_groups' = r.groups
        /\ ret' = [op |-> "get_or_create_group", mat_name |-> "",
                   group_name |-> group_name, result |-> r.result,
                   raised |-> r.raised, group |-> r.result,
                   built |-> r.built, backed_up |-> r.backed_up]
        /\ UNCHANGED <<host, materials, context, report>>

\* A caller runs create_celllook_material(mat_name, group_name).
CreateMaterial(mat_name, group_name) ==
    \E r \in {create_celllook_material(host, node_groups, materials,
                                      mat_name, group_name)} :
        /\ Len(r.groups) <= MaxGroups
        /\ Len(r.materials) <= MaxMaterials
        /\ node_groups' = r.groups
        /\ materials' = r.materials
        /\ ret' = [op |-> "create_celllook_material", mat_name |-> mat_name,
                   group_name |-> group_name, result |-> r.result,
                   raised |-> r.raised, group |-> r.group,
                   built |-> r.built, backed_up |-> r.backed_up]
        /\ UNCHANGED <<host, context, report>>

\* The interface of a group without its OUTPUT sockets called `name`.
RECURSIVE WithoutOutput(_, _)
WithoutOutput(iface, name) ==
    IF iface = <<>> THEN <<>>
    ELSE (IF Head(iface).in_out = "OUTPUT" /\ Head(iface).name = name
          THEN <<>> ELSE <<Head(iface)>>)
           \o WithoutOutput(Tail(iface), name)

\* The user removes the "Mask" output from a group's interface in the
\* editor.  The host drops the links that ended in the removed socket: the
\* one into the group output node inside the group, and those leaving the
\* group nodes that reference the group.
StripMask(g) ==
    /\ "Mask" \in Range(InterfaceNames(node_groups[g].interface, "OUTPUT"))
    /\ node_groups' =
         [node_groups EXCEPT
            ![g].interface = WithoutOutput(@, "Mask"),
            ![g].links = {l \in @ :
                ~ (/\ node_groups[g].nodes[l.to.node].type = "NodeGroupOutput"
                   /\ l.to.name = "Mask")}]
    /\ materials' =
         [m \in 1..Len(materials) |->
            [materials[m] EXCEPT
               !.links = {l \in @ :
                 ~ (/\ materials[m].nodes[l.from.node].type = "ShaderNodeGroup"
                    /\ materials[m].nodes[l.from.node].node_tree = g
                    /\ l.from.name = "Mask")}]]
    /\ ret' = NoCall
    /\ UNCHANGED <<host, context, report>>

\* The user adds a material of their own in the editor, with the host's
\* default nodes.
UserNewMaterial(mat_name) ==
    /\ Len(materials) < MaxMaterials
    /\ materials' = WithTree(materials_new(materials, mat_name), DefaultTree(host))
    /\ ret' = NoCall
    /\ UNCHANGED <<host, node_groups, context, report>>

Next ==
    \/ \E group_name \in GroupNames : GetOrCreateGroup(group_name)
    \/ \E mat_name \in MaterialNames, group_name \in GroupNames :
         CreateMaterial(mat_name, group_name)
    \/ \E g \in 1..Len(node_groups) : StripMask(g)
    \/ \E mat_name \in MaterialNames : UserNewMaterial(mat_name)

Spec == Init /\ [][Next]_vars

\* ------------------------------------------- the wiring of the mix factor

\* Most output sockets of a group the wiring is run against.
MaxOutputs == 2

\* Names of the output sockets of such a group: the one the builder makes,
\* the generic one, and one that is neither.
OutputNames == {"Mask", "Color", "Value"}

\* An interface with the Ramp Pos input and the given outputs, in order.
InterfaceWith(outs) ==
    <<GroupInterface[1]>>
      \o [i \in 1..Len(outs) |->
            [name |-> outs[i], in_out |-> "OUTPUT",
             socket_type |-> "NodeSocketColor",
             default_value |-> "", min_value |-> "", max_value |-> ""]]

\* The node trees the group node of a material may reference: every
\* interface of at most MaxOutputs outputs.
GroupsToWire ==
    {[name |-> GROUP_NAME_DEFAULT, interface |-> InterfaceWith(outs),
      nodes |-> <<>>, links |-> {}] :
       outs \in UNION {[1..n -> OutputNames] : n \in 0..MaxOutputs}}

\* A document that holds one such group, in one of the hosts.
FactorInit ==
    /\ host \in HostProfiles
    /\ node_groups \in {<<g>> : g \in GroupsToWire}
    /\ materials = <<>>
    /\ ret = NoCall
    /\ context = DefaultContext
    /\ report = NoReport

\* get_or_create_group handed `group` out as it is.
Handed(groups, group) ==
    [groups |-> groups, result |-> group, raised |-> "", built |-> FALSE,
     backed_up |-> 0]

\* create_celllook_material(mat_name) with `group` as the value of
\* get_or_create_group: the material, its four nodes, the defaults of the
\* Mix node and the links.
WireMaterial(mat_name, group) ==
    \E r \in {AfterGroup(host, Handed(node_groups, group),
                         materials_new(materials, mat_name),
                         Run(host, node_groups, DefaultTree(host), MaterialHead))} :
        /\ Len(r.materials) <= MaxMaterials
        /\ materials' = r.materials
        /\ ret' = [op |-> "create_celllook_material", mat_name |-> mat_name,
                   group_name |-> node_groups[group].name, result |-> r.result,
                   raised |-> r.raised, group |-> r.group,
                   built |-> r.built, backed_up |-> r.backed_up]
        /\ UNCHANGED <<host, node_groups, context, report>>

FactorNext ==
    \E mat_name \in MaterialNames, group \in 1..Len(node_groups) :
        WireMaterial(mat_name, group)

FactorSpec == FactorInit /\ [][FactorNext]_vars

\* ---------------------------------------------- the render settings action

\* Most candidate attributes scene.eevee has, in the hosts other than the
\* targeted one.
MaxAttrs == 2

AllCandidates ==
    Range(shadow_bool_candidates) \cup Range(ray_candidates)
      \cup Range(step_candidates)

\* scene.eevee over the hosts: absent, the targeted host's, and every
\* choice of at most MaxAttrs of the candidate names, each writable or
\* read-only.
EeveeProfiles ==
    {NoEevee, StandardEevee}
      \cup UNION {{[present |-> TRUE,
                    attrs |-> {Attribute(n, n \in W, HostValue) : n \in S}] :
                     W \in SUBSET S} :
                   S \in {T \in SUBSET AllCandidates : Cardinality(T) <= MaxAttrs}}

\* scene.render over the hosts: the engine enum of a 4.2+ host, of an older
\* one, one that lists both names, one without EEVEE, one whose enum cannot
\* be read; the engine in use is EEVEE or Cycles.
RenderProfiles ==
    {Render(e, items) :
       e \in {"BLENDER_EEVEE_NEXT", "BLENDER_EEVEE", "CYCLES"},
       items \in {{"BLENDER_EEVEE_NEXT", "BLENDER_WORKBENCH", "CYCLES"},
                  {"BLENDER_EEVEE", "BLENDER_WORKBENCH", "CYCLES"},
                  EngineNames,
                  {"BLENDER_WORKBENCH", "CYCLES"}}}
      \cup {Render("CYCLES", {})}

\* The engine in use is one the host has.
EngineInUse(render) ==
    render.enum_items = {} \/ <<"engine", render.engine>> \in render.enum_items

\* scene.view_settings over the hosts: absent, without view_transform, with
\* a view_transform that takes "Standard", with one that does not.
ViewProfiles ==
    {ViewSettings(FALSE, FALSE, {}),
     ViewSettings(TRUE, FALSE, {}),
     ViewSettings(TRUE, TRUE, {"Standard", "AgX"}),
     ViewSettings(TRUE, TRUE, {"AgX"})}

\* An empty document whose scene is one of these.
SettingsInit ==
    /\ host = StandardHost
    /\ node_groups = <<>>
    /\ materials = <<>>
    /\ ret = NoCall
    /\ context \in {Context(Scene(r, e, v), NoObject) :
                       r \in {x \in RenderProfiles : EngineInUse(x)},
                       e \in EeveeProfiles, v \in ViewProfiles}
    /\ report = NoReport

\* The user presses "Apply Recommended Render Settings".
ApplySettings ==
    \E r \in {apply_recommended_settings(context.scene)} :
        /\ context' = [context EXCEPT !.scene = r.scene]
        /\ report' = r.report
        /\ UNCHANGED <<host, node_groups, materials, ret>>

SettingsNext == ApplySettings

SettingsSpec == SettingsInit /\ [][SettingsNext]_vars

\* ------------------------------------------------------ the create action

\* context.active_object over the scenes: none, an object without material
\* slots, a mesh with no slot, a mesh with one empty slot.
ObjectProfiles ==
    {NoObject, Object(FALSE, <<>>), Object(TRUE, <<>>), Object(TRUE, <<0>>)}

\* A new document in one of the hosts, with one of these objects active.
CreateInit ==
    /\ host \in HostProfiles
    /\ node_groups = <<>>
    /\ materials = <<>>
    /\ ret = NoCall
    /\ context \in {Context(DefaultContext.scene, o) : o \in ObjectProfiles}
    /\ report = NoReport

\* The user presses "Create Cell Look Material".
Create ==
    \E x \in {CELLLOOK_OT_create_execute(host, node_groups, materials, context)} :
        /\ Len(x.made.groups) <= MaxGroups
        /\ Len(x.made.materials) <= MaxMaterials
        /\ node_groups' = x.made.groups
        /\ materials' = x.made.materials
        /\ context' = x.context
        /\ report' = x.report
        /\ ret' = [op |-> "create_celllook_material",
                   mat_name |-> context.scene.celllook_props.material_name,
                   group_name |-> GROUP_NAME_DEFAULT, result |-> x.made.result,
                   raised |-> x.made.raised, group |-> x.made.group,
                   built |-> x.made.built, backed_up |-> x.made.backed_up]
        /\ UNCHANGED host

\* Creation actions, and the user's own materials in between; nothing
\* touches the node groups but the add-on.
CreateNext ==
    \/ Create
    \/ \E mat_name \in MaterialNames : UserNewMaterial(mat_name)

CreateSpec == CreateInit /\ [][CreateNext]_vars

\* ============================================================== the claims

\* The group exposes an OUTPUT socket named "Mask".
HasMaskOutput(g) ==
    \E i \in 1..Len(g.interface) :
        g.interface[i].in_out = "OUTPUT" /\ g.interface[i].name = "Mask"

\* The groups of a document that bear the name.
Named(groups, name) == {i \in 1..Len(groups) : groups[i].name = name}

\* The step is a call of get_or_create_group(name) made directly.
DirectCall(name) ==
    ret'.op = "get_or_create_group" /\ ret'.group_name = name

\* ------------------------------------------------------------------- C1
\* C1: when a group called name exists and exposes the "Mask" output, a call
\* of get_or_create_group(name) returns that very group and changes no
\* group (none created, none renamed, nodes, links and interface as they
\* were); so a call that follows a call that returned, with the same name
\* and nothing in between, returns the same object.
C1_ReuseIsIdentityStable ==
    [][\A name \in GroupNames :
         /\ (/\ DirectCall(name)
             /\ \E g \in Named(node_groups, name) : HasMaskOutput(node_groups[g]))
              => /\ ret'.raised = ""
                 /\ ret'.result \in Named(node_groups, name)
                 /\ node_groups' = node_groups
         /\ (/\ DirectCall(name)
             /\ ret.op = "get_or_create_group" /\ ret.group_name = name
             /\ ret.raised = "")
              => /\ ret'.result = ret.result
                 /\ node_groups' = node_groups]_vars

\* A call returned a group it found, after a call that had built it.
C1_Witness ==
    /\ ret.op = "get_or_create_group"
    /\ ret.raised = "" /\ ~ ret.built /\ ret.backed_up = 0
    /\ ret.result # 0
    /\ node_groups[ret.result].name = ret.group_name

\* ------------------------------------------------------------------- C2
\* name_OLD if no group bears it, else name_OLD_<n> for the least n >= 2
\* whose name no group bears.
ExpectedBackupName(name, used) ==
    IF (name \o "_OLD") \notin used THEN name \o "_OLD"
    ELSE LET n == CHOOSE k \in 2..(Cardinality(used) + 2) :
                    /\ (name \o "_OLD_" \o ToString(k)) \notin used
                    /\ \A j \in 2..(k - 1) :
                         (name \o "_OLD_" \o ToString(j)) \in used
         IN  name \o "_OLD_" \o ToString(n)

\* C2: when get_or_create_group(name) finds a group called name without the
\* "Mask" output, that group is renamed to name_OLD, or to name_OLD_<n> for
\* the least n >= 2 that is free; never to name_OLD_1, never to the name of
\* another group; and it is the same object, with the nodes, links and
\* sockets it had, and the materials are as they were.
C2_BackupRename ==
    [][\A name \in GroupNames : \A g \in Named(node_groups, name) :
         (/\ ret'.op # "" /\ ret'.group_name = name
          /\ ~ HasMaskOutput(node_groups[g])
          /\ (DirectCall(name) \/ node_groups' # node_groups))
           => /\ node_groups'[g] =
                   [node_groups[g] EXCEPT
                      !.name = ExpectedBackupName(name, NamesOf(node_groups))]
              /\ node_groups'[g].name # name \o "_OLD_1"
              /\ node_groups'[g].name \notin
                   {node_groups[h].name : h \in 1..Len(node_groups)}
              /\ Named(node_groups', node_groups'[g].name) = {g}
              /\ ret'.backed_up = g
              /\ \A m \in 1..Len(materials) : materials'[m] = materials[m]]_vars

\* The helper renamed a group to name_OLD_2, name_OLD being taken.
C2_Witness ==
    /\ ret.op # "" /\ ret.backed_up # 0
    /\ node_groups[ret.backed_up].name = ret.group_name \o "_OLD_2"
    /\ Named(node_groups, ret.group_name \o "_OLD") # {}

\* ------------------------------------------------------------------- C3
\* The backups of name: the groups called name_OLD or name_OLD_<n>.
Backups(groups, name) ==
    {i \in 1..Len(groups) :
       \/ groups[i].name = name \o "_OLD"
       \/ \E n \in 1..(Len(groups) + 1) :
            groups[i].name = name \o "_OLD_" \o ToString(n)}

\* C3: from a state where the group called name lacks "Mask", one call of
\* get_or_create_group(name) leaves one more backup (the old group) and one
\* new group, the only one called name, which exposes "Mask"; a call made
\* when the group called name exposes "Mask" adds no backup and no group.
C3_OneBackupOneNewGroup ==
    [][\A name \in GroupNames :
         /\ (/\ DirectCall(name)
             /\ \E g \in Named(node_groups, name) : ~ HasMaskOutput(node_groups[g]))
              => /\ Len(node_groups') = Len(node_groups) + 1
                 /\ Backups(node_groups', name) =
                      Backups(node_groups, name) \cup Named(node_groups, name)
                 /\ Cardinality(Backups(node_groups', name)) =
                      Cardinality(Backups(node_groups, name)) + 1
                 /\ Named(node_groups', name) = {Len(node_groups')}
                 /\ HasMaskOutput(node_groups'[Len(node_groups')])
         /\ (/\ DirectCall(name)
             /\ \E g \in Named(node_groups, name) : HasMaskOutput(node_groups[g]))
              => /\ Len(node_groups') = Len(node_groups)
                 /\ Backups(node_groups', name) = Backups(node_groups, name)]_vars

\* A call renamed the old group aside and built the new one.
C3_Witness ==
    /\ ret.op = "get_or_create_group" /\ ret.built /\ ret.backed_up # 0
    /\ ret.backed_up \in Backups(node_groups, ret.group_name)
    /\ Named(node_groups, ret.group_name) = {Len(node_groups)}

\* ------------------------------------------------------------------- C4
\* The add-on's steps keep every group object, with its nodes, links and
\* interface (a rename apart).
GroupsOnlyGrow ==
    /\ Len(node_groups') >= Len(node_groups)
    /\ ret'.op # "" =>
         \A g \in 1..Len(node_groups) :
            node_groups'[g] = [node_groups[g] EXCEPT !.name = node_groups'[g].name]

\* C4: no group object is ever deleted (the groups only grow); at most one
\* group bears a name at any time; and right after get_or_create_group(name)
\* returns, the group bearing name is the returned one and exposes "Mask".
C4_GroupInvariants ==
    /\ [](/\ \A g, h \in 1..Len(node_groups) :
               node_groups[g].name = node_groups[h].name => g = h
          /\ (ret.op = "get_or_create_group" /\ ret.raised = "")
               => /\ Named(node_groups, ret.group_name) = {ret.result}
                  /\ HasMaskOutput(node_groups[ret.result]))
    /\ [][GroupsOnlyGrow]_vars

\* A call returned the rebuilt group while two older ones are kept as
\* backups.
C4_Witness ==
    /\ ret.op = "get_or_create_group" /\ ret.raised = ""
    /\ Named(node_groups, ret.group_name) = {ret.result}
    /\ Cardinality(Backups(node_groups, ret.group_name)) = 2

\* The step is a call of create_celllook_material(mat_name).
CreateCall(mat_name) ==
    ret'.op = "create_celllook_material" /\ ret'.mat_name = mat_name

\* The materials of a document that bear the name.
NamedMaterials(mats, name) == {m \in 1..Len(mats) : mats[m].name = name}

\* The types of a tree's nodes, as a bag.
TypeCount(nodes, type) ==
    Cardinality({i \in 1..Len(nodes) : nodes[i].type = type})

\* ------------------------------------------------------------------- C5
\* C5 as stated: when a material called mat_name exists, after
\* create_celllook_material(mat_name) returns the material registered under
\* mat_name is the returned one, and no material with the prior node content
\* remains under that name.
C5_FullReplaceAsStated ==
    [][\A mat_name \in MaterialNames : \A m \in NamedMaterials(materials, mat_name) :
         (CreateCall(mat_name) /\ ret'.raised = "")
           => /\ NamedMaterials(materials', mat_name) = {ret'.result}
              /\ \A k \in NamedMaterials(materials', mat_name) :
                   materials'[k].nodes # materials[m].nodes]_vars

\* C5, amended: create_celllook_material(mat_name) always makes a new
\* material and builds its graph from scratch (the default nodes the host
\* put in it are discarded).  Every material that was there, one called
\* mat_name included, is left as it was, under its name; the material
\* returned is the new one, called mat_name if the name was free and by a
\* name no other material bears (mat_name.001, ...) if it was not.
C5_AlwaysNewMaterial ==
    [][\A mat_name \in MaterialNames :
         CreateCall(mat_name)
           => /\ Len(materials') = Len(materials) + 1
              /\ \A m \in 1..Len(materials) : materials'[m] = materials[m]
              /\ ret'.raised = "" => ret'.result = Len(materials')
              /\ IF NamedMaterials(materials, mat_name) = {}
                 THEN materials'[Len(materials')].name = mat_name
                 ELSE \E k \in 1..Len(materials) :
                        materials'[Len(materials')].name = mat_name \o "." \o Pad3(k)
              /\ NamedMaterials(materials', materials'[Len(materials')].name)
                   = {Len(materials')}
              /\ TypeCount(materials'[Len(materials')].nodes,
                           "ShaderNodeBsdfPrincipled") = 0]_vars

\* The call returned a second material beside one that bears the name.
C5_Witness ==
    /\ ret.op = "create_celllook_material" /\ ret.raised = ""
    /\ ret.result = Len(materials)
    /\ materials[ret.result].name = ret.mat_name \o ".001"
    /\ NamedMaterials(materials, ret.mat_name) # {}

\* ------------------------------------------------------------------- C6
\* C6: the graph of the material create_celllook_material returns holds
\* four nodes and no other: one group node, which references the mask
\* group, one Mix node, one Emission node, one Material Output node;
\* whatever default nodes the host put in the material and whatever a
\* material of the same name held.
C6_ExactlyFourNodes ==
    (ret.op = "create_celllook_material" /\ ret.raised = "")
      => /\ Len(materials[ret.result].nodes) = 4
         /\ \A type \in {"ShaderNodeGroup", "ShaderNodeMix",
                         "ShaderNodeEmission", "ShaderNodeOutputMaterial"} :
              TypeCount(materials[ret.result].nodes, type) = 1
         /\ \A i \in 1..Len(materials[ret.result].nodes) :
              materials[ret.result].nodes[i].type = "ShaderNodeGroup"
                => /\ materials[ret.result].nodes[i].node_tree = ret.group
                   /\ Named(node_groups, ret.group_name) = {ret.group}

\* The call returned a material of four nodes while a material of the same
\* name holds the host's default nodes.
C6_Witness ==
    /\ ret.op = "create_celllook_material" /\ ret.raised = ""
    /\ Len(materials[ret.result].nodes) = 4
    /\ \E m \in NamedMaterials(materials, ret.mat_name) :
         /\ m # ret.result
         /\ TypeCount(materials[m].nodes, "ShaderNodeBsdfPrincipled") = 1

\* ------------------------------------------------------------------- C7
\* The material's tree links output `from` of its node of type a to input
\* `to` of its node of type b.
Linked(mat, a, from, b, to) ==
    \E l \in mat.links :
        /\ mat.nodes[l.from.node].type = a /\ l.from.dir = "out" /\ l.from.name = from
        /\ mat.nodes[l.to.node].type = b /\ l.to.dir = "in" /\ l.to.name = to

\* The host shows the standard names the chain uses.
ChainNamesPresent ==
    {<<"ShaderNodeMix", "in", "Factor">>, <<"ShaderNodeMix", "out", "Result">>,
     <<"ShaderNodeEmission", "in", "Color">>, <<"ShaderNodeEmission", "out", "Emission">>,
     <<"ShaderNodeOutputMaterial", "in", "Surface">>} \subseteq host

\* C7: with the standard socket names present (group output "Mask", Mix
\* "Factor" and "Result", Emission "Color" and "Emission", Output
\* "Surface"), the material create_celllook_material returns links the mask
\* group's "Mask" to Mix "Factor", Mix "Result" to Emission "Color" and
\* Emission "Emission" to Output "Surface"; whether the group was built by
\* the call or found.
C7_ConnectedChain ==
    (/\ ret.op = "create_celllook_material" /\ ret.raised = ""
     /\ ChainNamesPresent
     /\ HasMaskOutput(node_groups[ret.group]))
      => /\ Linked(materials[ret.result], "ShaderNodeGroup", "Mask",
                   "ShaderNodeMix", "Factor")
         /\ Linked(materials[ret.result], "ShaderNodeMix", "Result",
                   "ShaderNodeEmission", "Color")
         /\ Linked(materials[ret.result], "ShaderNodeEmission", "Emission",
                   "ShaderNodeOutputMaterial", "Surface")
         /\ Cardinality(materials[ret.result].links) = 3

\* The call returned a linked material around a group it found, after an
\* earlier call had returned one around the group it built.
C7_Witness ==
    /\ ret.op = "create_celllook_material" /\ ret.raised = "" /\ ~ ret.built
    /\ ChainNamesPresent
    /\ Linked(materials[ret.result], "ShaderNodeGroup", "Mask",
              "ShaderNodeMix", "Factor")
    /\ Linked(materials[ret.result], "ShaderNodeEmission", "Emission",
              "ShaderNodeOutputMaterial", "Surface")
    /\ \E m \in 1..Len(materials) :
         /\ m # ret.result
         /\ Linked(materials[m], "ShaderNodeMix", "Result", "ShaderNodeEmission", "Color")

\* ------------------------------------------------------------------- C8
\* The interface items of a group on one side.
Items(g, in_out) ==
    {i \in 1..Len(g.interface) : g.interface[i].in_out = in_out}

\* C8: every group get_or_create_group builds, the first time and after a
\* group was renamed aside, exposes one interface input (named "Ramp Pos",
\* float, default 0.7, minimum 0.0, maximum 1.0), one interface output
\* (named "Mask", colour) and no other interface socket.
C8_InterfaceOfBuiltGroup ==
    ret.built
      => /\ node_groups[Len(node_groups)].name = ret.group_name
         /\ Len(node_groups[Len(node_groups)].interface) = 2
         /\ \E i \in Items(node_groups[Len(node_groups)], "INPUT") :
              /\ Items(node_groups[Len(node_groups)], "INPUT") = {i}
              /\ node_groups[Len(node_groups)].interface[i] =
                   [name |-> "Ramp Pos", in_out |-> "INPUT",
                    socket_type |-> "NodeSocketFloat", default_value |-> "0.7",
                    min_value |-> "0.0", max_value |-> "1.0"]
         /\ \E o \in Items(node_groups[Len(node_groups)], "OUTPUT") :
              /\ Items(node_groups[Len(node_groups)], "OUTPUT") = {o}
              /\ node_groups[Len(node_groups)].interface[o].name = "Mask"
              /\ node_groups[Len(node_groups)].interface[o].socket_type = "NodeSocketColor"

\* A call rebuilt the group after renaming the old one aside.
C8_Witness ==
    /\ ret.built /\ ret.backed_up # 0
    /\ Len(node_groups[Len(node_groups)].interface) = 2
    /\ Len(node_groups[ret.backed_up].interface) = 1

\* ------------------------------------------------------------------- C9
\* The group's nodes of a type (and, for a Math node, of an operation).
NodesOf(g, type, operation) ==
    {i \in 1..Len(g.nodes) :
       /\ g.nodes[i].type = type
       /\ operation # "" => <<"operation", operation>> \in g.nodes[i].attrs}

\* The group links the output socket (name, index) of node a to the input
\* socket (name, index) of node b.
GroupLink(g, a, from_name, from_index, b, to_name, to_index) ==
    [from |-> [node |-> a, dir |-> "out", name |-> from_name, index |-> from_index],
     to |-> [node |-> b, dir |-> "in", name |-> to_name, index |-> to_index]]
      \in g.links

\* The channel input of the combine node the host shows: the current name
\* or the older one.
Channel(current, older) ==
    IF <<"ShaderNodeCombineColor", "in", current>> \in host THEN current ELSE older

\* The host shows the names the topology goes through by a guarded lookup.
TopologyNamesPresent ==
    /\ <<"NodeGroupInput", "out", "Ramp Pos">> \in host
    /\ <<"NodeGroupOutput", "in", "Mask">> \in host
    /\ \A c \in {<<"Red", "R">>, <<"Green", "G">>, <<"Blue", "B">>} :
         <<"ShaderNodeCombineColor", "in", Channel(c[1], c[2])>> \in host

\* The fixed topology, on the nodes given.
Topology(g, gin, gout, dif, s2r, bw, gt, inv, com) ==
    /\ GroupLink(g, dif, "BSDF", 0, s2r, "Shader", 0)
    /\ GroupLink(g, s2r, "Color", 0, bw, "Color", 0)
    /\ GroupLink(g, bw, "Val", 0, gt, "Value", 0)
    /\ GroupLink(g, gin, "Ramp Pos", 0, gt, "Value", 1)
    /\ GroupLink(g, gt, "Value", 0, inv, "Value", 1)
    /\ [name |-> "Value", index |-> 0, value |-> "1.0"] \in g.nodes[inv].defaults
    /\ \A l \in g.links : ~ (l.to.node = inv /\ l.to.index = 0)
    /\ \A c \in {<<"Red", "R">>, <<"Green", "G">>, <<"Blue", "B">>} :
         \E l \in g.links :
            /\ l.from = [node |-> inv, dir |-> "out", name |-> "Value", index |-> 0]
            /\ l.to.node = com /\ l.to.dir = "in"
            /\ l.to.name = Channel(c[1], c[2])
    /\ \E l \in g.links :
          /\ l.from.node = com /\ l.from.name = "Color" /\ l.from.dir = "out"
          /\ l.to.node = gout /\ l.to.name = "Mask" /\ l.to.dir = "in"
    /\ Cardinality(g.links) = 9

\* C9: the group get_or_create_group builds holds eight nodes (group input,
\* group output, diffuse, shader-to-RGB, RGB-to-BW, a GREATER_THAN and a
\* SUBTRACT math node, combine) wired Diffuse "BSDF" -> ShaderToRGB "Shader",
\* ShaderToRGB "Color" -> RGBToBW "Color", RGBToBW "Val" -> first input of
\* GREATER_THAN, group input "Ramp Pos" -> its second input, GREATER_THAN ->
\* second input of SUBTRACT whose first input is the constant 1.0, SUBTRACT
\* -> the red, green and blue inputs of the combine node, combine "Color" ->
\* group output "Mask"; the host showing the names "Ramp Pos", "Mask" and
\* the three channels that the claim goes through.
C9_FixedTopology ==
    (ret.built /\ ret.raised = "" /\ TopologyNamesPresent)
      => /\ Len(node_groups[ret.group].nodes) = 8
         /\ \E gin \in NodesOf(node_groups[ret.group], "NodeGroupInput", ""),
               gout \in NodesOf(node_groups[ret.group], "NodeGroupOutput", ""),
               dif \in NodesOf(node_groups[ret.group], "ShaderNodeBsdfDiffuse", ""),
               s2r \in NodesOf(node_groups[ret.group], "ShaderNodeShaderToRGB", ""),
               bw \in NodesOf(node_groups[ret.group], "ShaderNodeRGBToBW", ""),
               gt \in NodesOf(node_groups[ret.group], "ShaderNodeMath", "GREATER_THAN"),
               inv \in NodesOf(node_groups[ret.group], "ShaderNodeMath", "SUBTRACT"),
               com \in NodesOf(node_groups[ret.group], "ShaderNodeCombineColor", "") :
              /\ Cardinality({gin, gout, dif, s2r, bw, gt, inv, com}) = 8
              /\ Topology(node_groups[ret.group], gin, gout, dif, s2r, bw, gt, inv, com)

\* A call built and returned the group in the standard host.
C9_Witness ==
    /\ ret.built /\ ret.raised = "" /\ host = StandardHost
    /\ Len(node_groups[ret.group].nodes) = 8
    /\ Cardinality(node_groups[ret.group].links) = 9

\* ------------------------------------------------------------------ C10
\* The names the builders look up with a bare subscript are all there, and
\* the group output node has an input.
UnguardedNamesPresent ==
    /\ {<<"ShaderNodeBsdfDiffuse", "in", "Roughness">>,
        <<"ShaderNodeBsdfDiffuse", "in", "Color">>,
        <<"ShaderNodeBsdfDiffuse", "out", "BSDF">>,
        <<"ShaderNodeShaderToRGB", "in", "Shader">>,
        <<"ShaderNodeShaderToRGB", "out", "Color">>,
        <<"ShaderNodeRGBToBW", "in", "Color">>,
        <<"ShaderNodeRGBToBW", "out", "Val">>,
        <<"ShaderNodeCombineColor", "out", "Color">>,
        <<"ShaderNodeMix", "out", "Result">>,
        <<"ShaderNodeEmission", "in", "Strength">>,
        <<"ShaderNodeEmission", "in", "Color">>,
        <<"ShaderNodeEmission", "out", "Emission">>,
        <<"ShaderNodeOutputMaterial", "in", "Surface">>} \subseteq host
    /\ \/ <<"NodeGroupOutput", "in", "Mask">> \in host
       \/ <<"NodeGroupOutput", "in", "">> \in host

\* C10 as stated: whatever socket names the host lacks, get_or_create_group
\* and create_celllook_material raise nothing and return a group / a
\* material.
C10_NeverRaisesAsStated ==
    ret.op # "" => (ret.raised = "" /\ ret.result # 0)

\* C10, amended: the calls raise nothing and return a group / a material
\* whenever the only names the host lacks are those looked up behind a test
\* (group input "Ramp Pos", the combine channels, group output "Mask" when
\* the node has another input, Mix "Factor"/"Fac", "A"/"Color1",
\* "B"/"Color2", the clamp_result attribute); the lookups made with a bare
\* subscript (Diffuse "Roughness"/"Color"/"BSDF", ShaderToRGB
\* "Shader"/"Color", RGBToBW "Color"/"Val", combine "Color", Mix "Result",
\* Emission "Strength"/"Color"/"Emission", Output "Surface", the first input
\* of a group output node that has none) raise KeyError / IndexError.
C10_RaisesOnlyOnUnguardedNames ==
    /\ (ret.op # "" /\ UnguardedNamesPresent) => (ret.raised = "" /\ ret.result # 0)
    /\ ret.raised \in {"", "KeyError", "IndexError"}
    /\ ret.raised # "" => ret.result = 0

\* A material was built and returned in the host that lacks every guarded
\* name.
C10_Witness ==
    /\ host = StandardHost \ GuardedKeys
    /\ ret.op = "create_celllook_material" /\ ret.built
    /\ ret.raised = "" /\ ret.result # 0
    /\ materials[ret.result].links # {}

\* ------------------------------------------------------------------ C11
\* The materials that got as far as their group node and their Mix node.
Wired ==
    {m \in 1..Len(materials) :
       /\ Len(materials[m].nodes) >= 4
       /\ materials[m].nodes[3].type = "ShaderNodeGroup"
       /\ materials[m].nodes[3].node_tree # 0
       /\ materials[m].nodes[4].type = "ShaderNodeMix"}

\* The Mix input of the host called `current`, else the one called `older`,
\* "" if it has neither.
MixInput(current, older) ==
    IF <<"ShaderNodeMix", "in", current>> \in host THEN current
    ELSE IF <<"ShaderNodeMix", "in", older>> \in host THEN older
    ELSE ""

\* The outputs of the group node of material m, in order.
GroupOutputs(m) ==
    InterfaceNames(node_groups[materials[m].nodes[3].node_tree].interface,
                   "OUTPUT")

\* The 0-based position of the first output called `name`.
FirstCalled(outs, name) ==
    (CHOOSE i \in 1..Len(outs) :
        outs[i] = name /\ \A j \in 1..(i - 1) : outs[j] # name) - 1

\* The position of the output the factor is to be driven from, -1 if the
\* group node has no output.
ChosenOutput(outs) ==
    IF "Mask" \in Range(outs) THEN FirstCalled(outs, "Mask")
    ELSE IF "Color" \in Range(outs) THEN FirstCalled(outs, "Color")
    ELSE IF Len(outs) > 0 THEN 0
    ELSE -1

\* The links of material m that leave its group node.
FromGroupNode(m) == {l \in materials[m].links : l.from.node = 3}

\* The default value of the Mix input called `name` in material m.
MixDefault(m, name) ==
    {d.value : d \in {e \in materials[m].nodes[4].defaults : e.name = name}}

\* C11: in every material that has its group node and its Mix node, the
\* links that leave the group node are: none, when the Mix node has neither
\* "Factor" nor "Fac" or the group node has no output; otherwise exactly
\* one, from the output called "Mask" if there is one, else from the one
\* called "Color", else from the first output, into "Factor" (else "Fac").
\* The Mix input "A" (else "Color1") holds white and "B" (else "Color2")
\* holds black.
C11_FactorFallbackOrder ==
    \A m \in Wired :
        /\ IF MixInput("Factor", "Fac") = "" \/ ChosenOutput(GroupOutputs(m)) = -1
           THEN FromGroupNode(m) = {}
           ELSE \E l \in materials[m].links :
                  /\ FromGroupNode(m) = {l}
                  /\ l.from.dir = "out"
                  /\ l.from.index = ChosenOutput(GroupOutputs(m))
                  /\ l.from.name = GroupOutputs(m)[l.from.index + 1]
                  /\ l.to.node = 4 /\ l.to.dir = "in"
                  /\ l.to.name = MixInput("Factor", "Fac")
        /\ MixInput("A", "Color1") # ""
             => MixDefault(m, MixInput("A", "Color1")) = {"(1.0, 1.0, 1.0, 1.0)"}
        /\ MixInput("B", "Color2") # ""
             => MixDefault(m, MixInput("B", "Color2")) = {"(0.0, 0.0, 0.0, 1.0)"}

\* A material whose group node has no "Mask" output and a "Color" output
\* that is not its first: the factor is driven from "Color", and the two
\* endpoints hold white and black.
C11_Witness ==
    \E m \in Wired :
        /\ GroupOutputs(m) = <<"Value", "Color">>
        /\ \E l \in FromGroupNode(m) :
              l.from.name = "Color" /\ l.from.index = 1 /\ l.to.name = "Factor"
        /\ MixDefault(m, "A") = {"(1.0, 1.0, 1.0, 1.0)"}
        /\ MixDefault(m, "B") = {"(0.0, 0.0, 0.0, 1.0)"}

\* ------------------------------------------------------------------ C12
\* The settings action has run.
SettingsRan == report # NoReport

\* The msg item of a toggle that was applied / skipped.
Applied(label, value, attr) == label \o " -> " \o value \o " (" \o attr \o ")"

Skipped(label, why) == label \o " -> (" \o why \o ", skipped)"

\* The attributes of scene.eevee called n (one or none).
AttrOf(eevee, n) == {a \in eevee.attrs : a.name = n}

\* An EEVEE engine is listed by the engine enum.
EngineFound ==
    \E e \in {"BLENDER_EEVEE_NEXT", "BLENDER_EEVEE"} :
        <<"engine", e>> \in context.scene.render.enum_items

\* The msg items that fit the scene for the engine toggle.
EngineItems ==
    {"Render Engine -> " \o context.scene.render.engine,
     "Render Engine already EEVEE"}

\* The msg items that fit the scene for one candidate list: applied, naming
\* a candidate that holds the value, or skipped when none holds it.
ListItems(candidates, label, shown, value) ==
    {Applied(label, shown, n) :
       n \in {c \in Range(candidates) :
                \E a \in AttrOf(context.scene.eevee, c) : a.value = value}}
      \cup (IF \E c \in Range(candidates) :
                 \E a \in AttrOf(context.scene.eevee, c) : a.value = value
            THEN {}
            ELSE {Skipped(label, "property not found")})

\* The msg item that fits the scene for the view transform toggle.
ViewItem ==
    IF context.scene.view_settings.present
         /\ context.scene.view_settings.has_view_transform
    THEN IF context.scene.view_settings.view_transform = "Standard"
         THEN "View Transform -> Standard"
         ELSE Skipped("View Transform", "failed to set")
    ELSE Skipped("View Transform", "not available")

\* The msg lists that fit the scene: the engine item when an EEVEE engine
\* was found, the three shadow items when scene.eevee exists, the view
\* transform item.
FittingMsgs ==
    {(IF EngineFound THEN <<e>> ELSE <<>>)
       \o (IF context.scene.eevee.present THEN <<s, r, t>> ELSE <<>>)
       \o <<ViewItem>> :
       e \in EngineItems,
       s \in ListItems(shadow_bool_candidates, "Shadows", "ON", "True"),
       r \in ListItems(ray_candidates, "Shadows Rays", "1", "1"),
       t \in ListItems(step_candidates, "Shadows Steps", "1", "1")}

\* The WARNING reports that fit the scene.
FittingWarnings ==
    (IF EngineFound THEN <<>>
     ELSE <<Warning("Could not find an EEVEE engine enum on this Blender version.")>>)
      \o (IF context.scene.eevee.present THEN <<>>
          ELSE <<Warning("scene.eevee settings not found (unexpected).")>>)

\* The item is part of the text, a text being items joined by " / " with
\* or without a closing " ...".
Appears(item, text) ==
    \E n \in 1..Len(report.msg), tail \in {"", " ..."} :
        /\ text = Join(SubSeq(report.msg, 1, n)) \o tail
        /\ item \in Range(SubSeq(report.msg, 1, n))

\* The text of the INFO report.
InfoText == report.reports[Len(report.reports)].message

\* C12 as stated: every toggle the action handled (every item of its msg
\* list) appears in the INFO message, and the action returns
\* {'FINISHED'}.
C12_AllTogglesInInfoAsStated ==
    SettingsRan =>
        /\ report.returned = "{'FINISHED'}"
        /\ report.reports[Len(report.reports)].type = "INFO"
        /\ \A i \in 1..Len(report.msg) : Appears(report.msg[i], InfoText)

\* C12, amended: the action always returns {'FINISHED'}; it collects one
\* applied-or-skipped item per toggle it handled (the engine only when an
\* EEVEE engine is listed, the three shadow toggles only when scene.eevee
\* exists, the view transform always) and warns about the engine and
\* scene.eevee otherwise; its one INFO report, made last, shows the first
\* three items only, joined by " / ", with " ..." when there are more.
C12_InfoShowsFirstThreeItems ==
    SettingsRan =>
        /\ report.returned = "{'FINISHED'}"
        /\ report.msg \in FittingMsgs
        /\ report.reports =
             FittingWarnings
               \o <<Info(Join(SubSeq(report.msg, 1,
                                     IF Len(report.msg) < 3 THEN Len(report.msg)
                                     ELSE 3))
                          \o (IF Len(report.msg) > 3 THEN " ..." ELSE ""))>>

\* The action ran in a scene whose scene.eevee has none of the shadow
\* enable names: five items were collected, one of them skipped, and the
\* INFO report shows three of them.
C12_Witness ==
    /\ report.returned = "{'FINISHED'}"
    /\ Len(report.msg) = 5
    /\ report.msg[4] = "Shadows Steps -> (property not found, skipped)"
    /\ report.msg[5] = "View Transform -> Standard"
    /\ report.reports =
         <<Info("Render Engine -> BLENDER_EEVEE_NEXT / "
                \o "Shadows -> (property not found, skipped) / "
                \o "Shadows Rays -> 1 (shadow_rays) ...")>>

\* ------------------------------------------------------------------ C13
\* The candidates of a list that exist on the object and take a value, by
\* position in the list.
Settable(eevee, candidates) ==
    {i \in 1..Len(candidates) :
       \E a \in AttrOf(eevee, candidates[i]) : a.writable}

\* One list across a step: the earliest settable candidate holds the value
\* after it and every other candidate is as it was; all are as they were
\* when none is settable.
OnlyFirstWritten(before, after, candidates, value) ==
    IF Settable(before, candidates) = {}
    THEN \A n \in Range(candidates) : AttrOf(after, n) = AttrOf(before, n)
    ELSE \E first \in Settable(before, candidates) :
           /\ \A j \in Settable(before, candidates) : first <= j
           /\ AttrOf(after, candidates[first])
                = {Attribute(candidates[first], TRUE, value)}
           /\ \A n \in Range(candidates) \ {candidates[first]} :
                 AttrOf(after, n) = AttrOf(before, n)

\* The engine after a step: BLENDER_EEVEE_NEXT whenever the enum lists it,
\* BLENDER_EEVEE only when it does not, the engine in use when it lists
\* neither.
EngineAfter(render) ==
    IF <<"engine", "BLENDER_EEVEE_NEXT">> \in render.enum_items
    THEN "BLENDER_EEVEE_NEXT"
    ELSE IF <<"engine", "BLENDER_EEVEE">> \in render.enum_items
    THEN "BLENDER_EEVEE"
    ELSE render.engine

\* C13: a run of the settings action writes, in each of the three
\* candidate lists, the earliest candidate that exists and accepts the
\* value and no other (later candidates that exist stay as they were, and
\* so do read-only ones before it); it adds and removes no attribute; it
\* sets the engine to BLENDER_EEVEE_NEXT whenever the enum lists it, to
\* BLENDER_EEVEE only when it does not, and leaves it when neither is
\* listed.
C13_FirstCandidateOnly ==
    [][/\ OnlyFirstWritten(context.scene.eevee, context'.scene.eevee,
                           shadow_bool_candidates, "True")
       /\ OnlyFirstWritten(context.scene.eevee, context'.scene.eevee,
                           ray_candidates, "1")
       /\ OnlyFirstWritten(context.scene.eevee, context'.scene.eevee,
                           step_candidates, "1")
       /\ {a.name : a \in context'.scene.eevee.attrs}
            = {a.name : a \in context.scene.eevee.attrs}
       /\ context'.scene.render.engine = EngineAfter(context.scene.render)
       /\ context'.scene.render.enum_items = context.scene.render.enum_items
      ]_vars

\* The action ran where scene.eevee has a read-only use_shadows and a
\* writable use_shadow_maps, and the enum lists both engine names: the
\* later candidate was written, the read-only one was not, and the engine
\* is BLENDER_EEVEE_NEXT.
C13_Witness ==
    /\ report.returned = "{'FINISHED'}"
    /\ context.scene.eevee.attrs =
         {Attribute("use_shadows", FALSE, HostValue),
          Attribute("use_shadow_maps", TRUE, "True")}
    /\ report.msg[2] = "Shadows -> ON (use_shadow_maps)"
    /\ <<"engine", "BLENDER_EEVEE">> \in context.scene.render.enum_items
    /\ context.scene.render.engine = "BLENDER_EEVEE_NEXT"

\* ------------------------------------------------------------------ C14
\* The group nodes of the materials, as <<material, node>> pairs.
GroupNodes ==
    {<<m, n>> \in (1..Len(materials)) \X (1..4) :
       /\ n <= Len(materials[m].nodes)
       /\ materials[m].nodes[n].type = "ShaderNodeGroup"}

\* The step is a creation action.
CreationStep == ret'.op = "create_celllook_material" /\ materials' # materials

\* C14: along creation actions with nothing else touching the node groups,
\* the document never holds a group other than one called
\* "CellLook_Shader_Group" (no "_OLD" backup, no second group); it holds
\* that group once a creation has returned a material; the group node of
\* every material references that one group; and a creation builds the
\* group only when the document holds none, every later one leaving the
\* groups exactly as they were.
C14_OneSharedGroup ==
    /\ [](/\ Len(node_groups) <= 1
          /\ \A g \in 1..Len(node_groups) :
                node_groups[g].name = GROUP_NAME_DEFAULT
          /\ (GroupNodes # {} \/ ret.result # 0) => Len(node_groups) = 1
          /\ \A p \in GroupNodes :
                materials[p[1]].nodes[p[2]].node_tree = 1)
    /\ [][CreationStep =>
            /\ ret'.built <=> (node_groups = <<>> /\ node_groups' # <<>>)
            /\ node_groups # <<>> => node_groups' = node_groups]_vars

\* Two creations have returned: one group, the second creation did not
\* build, both materials' group nodes reference the group, and the active
\* object holds the second material.
C14_Witness ==
    /\ Len(node_groups) = 1
    /\ ret.op = "create_celllook_material" /\ ret.result = 2 /\ ~ ret.built
    /\ {p[1] : p \in GroupNodes} = {1, 2}
    /\ context.active_object.materials = <<2>>
    /\ report.reports = <<Info("Created material: CellLook_Material.001")>>

====
